---------------------------- MODULE Spec2Model ----------------------------
(***************************************************************************)
(* Black Magic Probe back end of probe-rs (src/probe-rs/src/probe/bmp).   *)
(*                                                                         *)
(* Three state machines share the variables below:                         *)
(*   Spec          a caller constructing, driving and dropping BMPProbe    *)
(*                 values over the host's serial ports;                    *)
(*   ConstructSpec one call of new_from_selector, on every selector and    *)
(*                 every answer of the host within the bounds;             *)
(*   ScanSpec      callers running list_bmp_devices over the host's USB    *)
(*                 devices.                                                *)
(* Every method of the DebugProbe impl is an operator computing what the   *)
(* method returns and the value `self` has afterwards; the actions apply   *)
(* these operators to the caller's probe slots.  A panic (unimplemented!,  *)
(* todo!) is an outcome of its own, tag "Panic": the method returns        *)
(* neither Ok nor Err.                                                     *)
(***************************************************************************)
EXTENDS Naturals, Sequences, FiniteSets

VARIABLES
    probes,      \* per caller slot: the BMPProbe the caller owns, or NoProbe
    hist,        \* history per slot, of the probe in it: the protocol of the
                 \* last select_protocol that returned Ok, what that was
                 \* at the last attach that returned Ok, the speed last set
    osOpen,      \* host side: names of the serial ports currently held open
    lastCall,    \* the last call made: operation, slot, arguments, result
    host,        \* ConstructSpec: the selector passed and the host's answers
    usbDevices,  \* host side: the USB devices attached, in enumeration order
    scans        \* per scanner: progress and output of list_bmp_devices

vars == <<probes, hist, osOpen, lastCall, host, usbDevices, scans>>

probeVars == <<probes, hist, osOpen, lastCall, host>>
scanVars == <<usbDevices, scans>>

---------------------------------------------------------------------------
(* Bounds of the model *)

\* longest list available_ports() returns
MaxPorts == 2
\* longest list ctx.devices() returns
MaxDevices == 2

---------------------------------------------------------------------------
(* Program constants *)

\* speed: 1000 in new_from_device
DefaultSpeed == 1000
\* d_desc.vendor_id() != 0x1d50 in get_bmp_info
BmpVendorId == 7504
\* serialport::new(p.port_name, 115_200)
BaudRate == 115200
\* .timeout(Duration::from_millis(10))
PortTimeoutMs == 10

\* "Black Magic Probe", as the characters starts_with compares
BmpPrefix ==
    <<"B","l","a","c","k"," ","M","a","g","i","c"," ","P","r","o","b","e">>

---------------------------------------------------------------------------
(* Values *)

WireProtocol == {"Swd", "Jtag"}

\* speeds (kHz) the caller passes: zero, the default and another one
Speeds == {0, DefaultSpeed, 5000}

\* 0x1d50 and 0x0483; 0x6018 and 0xABCD
VendorIds == {BmpVendorId, 1155}
ProductIds == {24600, 43981}

\* the selectors passed: two that differ in the product id; relative to
\* either, PortTypes holds a port matching both ids, each one alone, neither
Selectors == [vendor_id : {BmpVendorId}, product_id : ProductIds]

\* the caller's probe slots: BMPProbe values share no state (the module has
\* no static), so the model follows one slot through its successive probes
ProbeIds == {"a"}
NoProbe == [none |-> TRUE]

Ok(v) == [tag |-> "Ok", val |-> v]
Err(e) == [tag |-> "Err", err |-> e]
Panic(m) == [tag |-> "Panic", msg |-> m]
Unit == "()"
Some(v) == [some |-> TRUE, val |-> v]
None == [some |-> FALSE]

\* the port types available_ports() reports: USB-backed with its ids, or not
PortTypes ==
    [kind : {"UsbPort"}, vid : VendorIds, pid : ProductIds]
        \cup {[kind |-> "PciPort"]}

PortName(i) == <<"ttyACM", i>>

\* the lists available_ports() can return: port i is named PortName(i)
PortLists ==
    UNION {
        {[i \in 1..n |-> [port_name |-> PortName(i), port_type |-> t[i]]] :
            t \in [1..n -> PortTypes]} : n \in 0..MaxPorts}

PortNames(ports) == {ports[i].port_name : i \in 1..Len(ports)}

---------------------------------------------------------------------------
(* Construction *)

\* serialport::new(name, 115_200).timeout(10 ms).open(): the host decides
\* (canOpen) whether the port opens
OpenPort(name, canOpen) ==
    IF name \in canOpen
    THEN Ok([port_name |-> name, baud_rate |-> BaudRate,
             timeout_ms |-> PortTimeoutMs])
    ELSE Err("io")

PortMatchesOr(port_type, selector) ==
    /\ port_type.kind = "UsbPort"
    /\ \/ port_type.vid = selector.vendor_id
       \/ port_type.pid = selector.product_id

\* SerialPortType::UsbPort(info) with info.vid and info.pid the selector's
PortMatches(port_type, selector) ==
    /\ port_type.kind = "UsbPort"
    /\ (port_type.vid = selector.vendor_id)
           /\ (port_type.pid = selector.product_id)

\* the loop going on to the next port when a matching port fails to open
RECURSIVE ForPortsContinue(_, _, _, _)
ForPortsContinue(ports, i, selector, canOpen) ==
    IF i > Len(ports)
    THEN [res |-> Err("NotFound"), tried |-> <<>>]
    ELSE IF PortMatches(ports[i].port_type, selector)
         THEN LET port == OpenPort(ports[i].port_name, canOpen)
                  rest == ForPortsContinue(ports, i + 1, selector, canOpen)
              IN  IF port.tag = "Ok"
                  THEN [res |-> Ok([_port |-> port.val]),
                        tried |-> <<ports[i].port_name>>]
                  ELSE [res |-> rest.res,
                        tried |-> <<ports[i].port_name>> \o rest.tried]
         ELSE ForPortsContinue(ports, i + 1, selector, canOpen)

\* `for p in ports` from port i on: the result, and the ports it tried to open
RECURSIVE ForPorts(_, _, _, _)
ForPorts(ports, i, selector, canOpen) ==
    IF i > Len(ports)
    THEN [res |-> Err("NotFound"), tried |-> <<>>]
    ELSE IF PortMatches(ports[i].port_type, selector)
         THEN LET port == OpenPort(ports[i].port_name, canOpen)
              IN  [res |-> IF port.tag = "Ok"
                           THEN Ok([_port |-> port.val])
                           ELSE Err("NotFound"),
                   tried |-> <<ports[i].port_name>>]
         ELSE ForPorts(ports, i + 1, selector, canOpen)

\* avail is what available_ports() returned: Err, or Ok of a port list
open_device_from_selector(selector, avail, canOpen) ==
    IF avail.tag = "Ok"
    THEN ForPorts(avail.val, 1, selector, canOpen)
    ELSE [res |-> Err("NotFound"), tried |-> <<>>]

new_from_device_jtag(device) ==
    [device |-> device, protocol |-> "Jtag", speed |-> DefaultSpeed]

new_from_device(device) ==
    [device |-> device, protocol |-> "Swd", speed |-> DefaultSpeed]

\* the `?` of new_from_selector: the ProbeCreationError converted into the
\* DebugProbeError that carries it
FromProbeCreationError(e) == [ProbeCreationError |-> e]

new_from_selector(selector, avail, canOpen) ==
    LET opened == open_device_from_selector(selector, avail, canOpen)
    IN  [res |-> IF opened.res.tag = "Ok"
                 THEN Ok(new_from_device(opened.res.val))
                 ELSE Err(FromProbeCreationError(opened.res.err)),
         tried |-> opened.tried]

---------------------------------------------------------------------------
(* The DebugProbe methods: [res |-> what is returned, self |-> self after] *)

get_name(self) == "Black Magic Probe"

speed(self) == self.speed

set_speed_dropped(self, speed_khz) ==
    [res |-> Ok(speed_khz), self |-> self]

set_speed(self, speed_khz) ==
    [res |-> Ok(speed_khz), self |-> [self EXCEPT !.speed = speed_khz]]

\* log::debug!("Attaching with protocol '{}'", self.protocol): the session
\* parameters an attach runs with are the fields stored in self
attach(self) ==
    [res |-> Ok(Unit), self |-> self, with_protocol |-> self.protocol,
     with_speed |-> self.speed]

\* select_protocol keeping the protocol it accepts
select_protocol_storing(self, protocol) ==
    IF protocol # "Jtag"
    THEN [res |-> Err([UnsupportedProtocol |-> protocol]), self |-> self]
    ELSE [res |-> Ok(Unit), self |-> [self EXCEPT !.protocol = protocol]]

select_protocol_fixed(self, protocol) ==
    IF protocol # "Jtag"
    THEN [res |-> Err([UnsupportedProtocol |-> "Jtag"]), self |-> self]
    ELSE [res |-> Ok(Unit), self |-> self]

select_protocol(self, protocol) ==
    IF protocol # "Jtag"
    THEN [res |-> Err([UnsupportedProtocol |-> protocol]), self |-> self]
    ELSE [res |-> Ok(Unit), self |-> self]

detach_release(self) ==
    IF self.speed = 0
    THEN [res |-> Err("NotAttached"), self |-> self]
    ELSE [res |-> Ok(Unit), self |-> [self EXCEPT !.speed = 0]]

detach(self) == [res |-> Ok(Unit), self |-> self]

target_reset_noop(self) == [res |-> Ok(Unit), self |-> self]

target_reset(self) == [res |-> Panic("not implemented"), self |-> self]

target_reset_assert(self) == [res |-> Panic("not implemented"), self |-> self]

target_reset_deassert(self) ==
    [res |-> Panic("not implemented"), self |-> self]

has_arm_interface(self) == TRUE

\* todo!(): the Box<Self> the method owns is dropped by the unwinding
try_get_arm_interface(self) == [res |-> Panic("not yet implemented")]

---------------------------------------------------------------------------
(* The state before any call *)

NoHist == [selected |-> None, attached |-> None, speed_set |-> None]
NoCall == [op |-> "none", id |-> "none"]
NoHost == [none |-> TRUE]

\* before any call: the caller owns no probe, no port is open
NoProbes ==
    /\ probes = [i \in ProbeIds |-> NoProbe]
    /\ hist = [i \in ProbeIds |-> NoHist]
    /\ osOpen = {}
    /\ lastCall = NoCall

---------------------------------------------------------------------------
(* Discovery: get_bmp_info and list_bmp_devices *)

\* str.contains(prefix)
Contains(str, prefix) ==
    \E k \in 1..Len(str) :
        /\ k + Len(prefix) - 1 <= Len(str)
        /\ SubSeq(str, k, k + Len(prefix) - 1) = prefix

\* str.starts_with(prefix), on strings as sequences of characters
StartsWith(str, prefix) ==
    /\ Len(str) >= Len(prefix)
    /\ SubSeq(str, 1, Len(prefix)) = prefix

\* a USB device as the host presents it: its descriptor's ids, and how each
\* request get_bmp_info makes of it ends
UsbDevice(descOk, vid, pid, openOk, langs, prod, sn) ==
    [descriptor_ok |-> descOk, vendor_id |-> vid, product_id |-> pid,
     open_ok |-> openOk, languages |-> langs, product_string |-> prod,
     serial_number_string |-> sn]

EnglishUS == <<1033>>
NameV1 == BmpPrefix \o <<" ", "v", "1">>
NameCut == SubSeq(BmpPrefix, 1, Len(BmpPrefix) - 1)
NameInside == <<"A", " ">> \o BmpPrefix

\* the devices the host can hold: a genuine probe, one with a longer name and
\* no readable serial number, another vendor's device under the probe's name,
\* the vendor's devices under other names, and the vendor's device failing at
\* each request in turn
UsbDeviceKinds ==
    { UsbDevice(TRUE, BmpVendorId, 24600, TRUE, Ok(EnglishUS),
                Ok(BmpPrefix), Ok("7BB0A0C1")),
      UsbDevice(TRUE, BmpVendorId, 24600, TRUE, Ok(EnglishUS),
                Ok(NameV1), Err("io")),
      UsbDevice(TRUE, 1155, 14152, TRUE, Ok(EnglishUS),
                Ok(BmpPrefix), Ok("066CFF")),
      UsbDevice(TRUE, BmpVendorId, 24599, TRUE, Ok(EnglishUS),
                Ok(NameCut), Ok("0001")),
      UsbDevice(TRUE, BmpVendorId, 24599, TRUE, Ok(EnglishUS),
                Ok(NameInside), Ok("0002")),
      UsbDevice(FALSE, BmpVendorId, 24600, TRUE, Ok(EnglishUS),
                Ok(BmpPrefix), Ok("0003")),
      UsbDevice(TRUE, BmpVendorId, 24600, FALSE, Ok(EnglishUS),
                Ok(BmpPrefix), Ok("0004")),
      UsbDevice(TRUE, BmpVendorId, 24600, TRUE, Err("io"),
                Ok(BmpPrefix), Ok("0005")),
      UsbDevice(TRUE, BmpVendorId, 24600, TRUE, Ok(<<>>),
                Ok(BmpPrefix), Ok("0006")),
      UsbDevice(TRUE, BmpVendorId, 24600, TRUE, Ok(EnglishUS),
                Err("io"), Ok("0007")) }

UsbDeviceLists ==
    UNION {[1..n -> UsbDeviceKinds] : n \in 0..MaxDevices}

\* Result::ok()
ResultOk(r) == IF r.tag = "Ok" THEN Some(r.val) ELSE None

get_bmp_info_any_vendor(device) ==
    IF ~device.descriptor_ok
    THEN [info |-> None, io |-> <<"device_descriptor">>]
    ELSE IF ~device.open_ok
    THEN [info |-> None, io |-> <<"device_descriptor", "open">>]
    ELSE IF device.languages.tag # "Ok" \/ device.languages.val = <<>>
    THEN [info |-> None, io |-> <<"device_descriptor", "open",
                                  "read_languages", "close">>]
    ELSE IF device.product_string.tag # "Ok"
    THEN [info |-> None, io |-> <<"device_descriptor", "open",
                                  "read_languages", "read_product_string",
                                  "close">>]
    ELSE [info |-> IF StartsWith(device.product_string.val, BmpPrefix)
                   THEN Some([identifier |-> device.product_string.val,
                              vendor_id |-> device.vendor_id,
                              product_id |-> device.product_id,
                              serial_number |->
                                  ResultOk(device.serial_number_string),
                              probe_type |-> "BMP"])
                   ELSE None,
          io |-> <<"device_descriptor", "open", "read_languages",
                   "read_product_string", "read_serial_number_string",
                   "close">>]

\* get_bmp_info going on with language 0 when the language table is empty
get_bmp_info_no_language(device) ==
    IF device.descriptor_ok /\ device.vendor_id # BmpVendorId
    THEN [info |-> None, io |-> <<"device_descriptor">>]
    ELSE IF /\ device.descriptor_ok
            /\ device.open_ok
            /\ device.languages = Ok(<<>>)
         THEN get_bmp_info_any_vendor(
                  [device EXCEPT !.languages = Ok(<<0>>)])
         ELSE get_bmp_info_any_vendor(device)

\* get_bmp_info comparing the vendor id after the requests, not before
get_bmp_info_open_first(device) ==
    LET r == get_bmp_info_any_vendor(device)
    IN  IF device.descriptor_ok /\ device.vendor_id # BmpVendorId
        THEN [info |-> None, io |-> r.io]
        ELSE r

\* info: the Option<DebugProbeInfo> returned; io: the requests made of the
\* device, in order ("close" is the drop of the handle on return)
get_bmp_info(device) ==
    IF ~device.descriptor_ok
    THEN [info |-> None, io |-> <<"device_descriptor">>]
    ELSE IF device.vendor_id # BmpVendorId
    THEN [info |-> None, io |-> <<"device_descriptor">>]
    ELSE IF ~device.open_ok
    THEN [info |-> None, io |-> <<"device_descriptor", "open">>]
    ELSE IF device.languages.tag # "Ok" \/ device.languages.val = <<>>
    THEN [info |-> None, io |-> <<"device_descriptor", "open",
                                  "read_languages", "close">>]
    ELSE IF device.product_string.tag # "Ok"
    THEN [info |-> None, io |-> <<"device_descriptor", "open",
                                  "read_languages", "read_product_string",
                                  "close">>]
    ELSE [info |-> IF StartsWith(device.product_string.val, BmpPrefix)
                   THEN Some([identifier |-> device.product_string.val,
                              vendor_id |-> device.vendor_id,
                              product_id |-> device.product_id,
                              serial_number |->
                                  ResultOk(device.serial_number_string),
                              probe_type |-> "BMP"])
                   ELSE None,
          io |-> <<"device_descriptor", "open", "read_languages",
                   "read_product_string", "read_serial_number_string",
                   "close">>]

ScannerIds == {"s1", "s2"}

\* a scanner not inside list_bmp_devices
Idle == [pc |-> "idle"]

NoScans == scans = [s \in ScannerIds |-> Idle]

\* list_bmp_devices is entered: rusb::Context::new().and_then(|ctx|
\* ctx.devices()) gives the device list or fails, and a failure returns vec![]
ScanStart(s) ==
    /\ scans[s].pc = "idle"
    /\ \E enum \in {"Ok", "ContextErr", "DevicesErr"} :
         scans' = [scans EXCEPT
             ![s] = [pc |-> IF enum = "Ok" THEN "iter" ELSE "done",
                     enum |-> enum, next |-> 1, out |-> <<>>,
                     from |-> <<>>, io |-> <<>>]]
    /\ UNCHANGED <<probeVars, usbDevices>>

\* one item of the iteration collecting into one Vec shared by the scans
\* under way
ScanDevice_shared(s) ==
    /\ scans[s].pc = "iter"
    /\ scans[s].next <= Len(usbDevices)
    /\ LET n == scans[s].next
           r == get_bmp_info(usbDevices[n])
       IN  scans' = [t \in ScannerIds |->
               IF scans[t].pc # "iter"
               THEN scans[t]
               ELSE [scans[t] EXCEPT
                        !.next = IF t = s THEN n + 1 ELSE @,
                        !.out = IF r.info.some
                                THEN Append(@, r.info.val) ELSE @,
                        !.from = IF r.info.some THEN Append(@, n) ELSE @,
                        !.io = IF t = s THEN Append(@, r.io) ELSE @]]
    /\ UNCHANGED <<probeVars, usbDevices>>

\* one item of the iteration where a device without identity ends the scan
\* with nothing collected
ScanDevice_abort(s) ==
    /\ scans[s].pc = "iter"
    /\ scans[s].next <= Len(usbDevices)
    /\ LET n == scans[s].next
           r == get_bmp_info(usbDevices[n])
       IN  scans' = [scans EXCEPT
               ![s].next = IF r.info.some THEN n + 1 ELSE Len(usbDevices) + 1,
               ![s].out = IF r.info.some THEN Append(@, r.info.val) ELSE <<>>,
               ![s].from = IF r.info.some THEN Append(@, n) ELSE <<>>,
               ![s].io = Append(@, r.io)]
    /\ UNCHANGED <<probeVars, usbDevices>>

\* one item of devices.iter().filter_map(|device| get_bmp_info(&device));
\* from records the device each collected identity came from
ScanDevice(s) ==
    /\ scans[s].pc = "iter"
    /\ scans[s].next <= Len(usbDevices)
    /\ LET n == scans[s].next
           r == get_bmp_info(usbDevices[n])
       IN  scans' = [scans EXCEPT
               ![s].next = n + 1,
               ![s].out = IF r.info.some THEN Append(@, r.info.val) ELSE @,
               ![s].from = IF r.info.some THEN Append(@, n) ELSE @,
               ![s].io = Append(@, r.io)]
    /\ UNCHANGED <<probeVars, usbDevices>>

\* the iterator is exhausted: collect() returns the Vec
ScanCollect(s) ==
    /\ scans[s].pc = "iter"
    /\ scans[s].next > Len(usbDevices)
    /\ scans' = [scans EXCEPT ![s].pc = "done"]
    /\ UNCHANGED <<probeVars, usbDevices>>

\* the caller is done with the Vec returned
ScanForget(s) ==
    /\ scans[s].pc = "done"
    /\ scans' = [scans EXCEPT ![s] = Idle]
    /\ UNCHANGED <<probeVars, usbDevices>>

ScanInit ==
    /\ NoProbes
    /\ host = NoHost
    /\ NoScans
    /\ usbDevices \in UsbDeviceLists

ScanNext ==
    \E s \in ScannerIds :
        \/ ScanStart(s)
        \/ ScanDevice(s)
        \/ ScanCollect(s)
        \/ ScanForget(s)

ScanSpec == ScanInit /\ [][ScanNext]_vars

---------------------------------------------------------------------------
(* The caller's steps over its probe slots *)

\* what available_ports() can return
Avails == {Err("io")} \cup {Ok(l) : l \in PortLists}

\* the ports of avail the host would let this call open: a port some probe
\* holds open is exclusive and cannot be opened again
Openable(avail) ==
    IF avail.tag = "Ok" THEN PortNames(avail.val) \ osOpen ELSE {}

Live(i) == probes[i] # NoProbe

HeldPort(i) == probes[i].device._port.port_name

\* the ports of a tried list that the host did open
OpenedBy(tried, canOpen) ==
    {tried[k] : k \in 1..Len(tried)} \cap canOpen

\* the probe the call before this one dropped, if it dropped one
Earlier ==
    IF lastCall.op \in {"drop", "try_get_arm_interface"}
    THEN lastCall.before ELSE NoProbe

NewFromSelector(i) ==
    /\ ~Live(i)
    /\ \E selector \in Selectors, avail \in Avails :
         \E canOpen \in SUBSET Openable(avail) :
           LET r == new_from_selector(selector, avail, canOpen)
           IN  /\ probes' = [probes EXCEPT
                      ![i] = IF r.res.tag = "Ok" THEN r.res.val ELSE NoProbe]
               /\ osOpen' = osOpen \cup OpenedBy(r.tried, canOpen)
               /\ lastCall' = [op |-> "new_from_selector", id |-> i,
                               selector |-> selector, res |-> r.res,
                               tried |-> r.tried, earlier |-> Earlier]
    /\ hist' = [hist EXCEPT ![i] = NoHist]
    /\ UNCHANGED <<host, scanVars>>

GetName(i) ==
    /\ Live(i)
    /\ lastCall' = [op |-> "get_name", id |-> i, before |-> probes[i],
                    res |-> get_name(probes[i])]
    /\ UNCHANGED <<probes, hist, osOpen, host, scanVars>>

Speed(i) ==
    /\ Live(i)
    /\ lastCall' = [op |-> "speed", id |-> i, before |-> probes[i],
                    res |-> speed(probes[i])]
    /\ UNCHANGED <<probes, hist, osOpen, host, scanVars>>

SetSpeed(i) ==
    /\ Live(i)
    /\ \E speed_khz \in Speeds :
         LET r == set_speed(probes[i], speed_khz)
         IN  /\ probes' = [probes EXCEPT ![i] = r.self]
             /\ hist' = [hist EXCEPT ![i].speed_set = Some(speed_khz)]
             /\ lastCall' = [op |-> "set_speed", id |-> i,
                             before |-> probes[i], arg |-> speed_khz,
                             res |-> r.res]
    /\ UNCHANGED <<osOpen, host, scanVars>>

Attach(i) ==
    /\ Live(i)
    /\ LET r == attach(probes[i])
       IN  /\ probes' = [probes EXCEPT ![i] = r.self]
           /\ hist' = [hist EXCEPT
                  ![i].attached = IF r.res.tag = "Ok"
                                  THEN Some(hist[i].selected) ELSE @]
           /\ lastCall' = [op |-> "attach", id |-> i, before |-> probes[i],
                           res |-> r.res,
                           with_protocol |-> r.with_protocol,
                           with_speed |-> r.with_speed]
    /\ UNCHANGED <<osOpen, host, scanVars>>

SelectProtocol(i) ==
    /\ Live(i)
    /\ \E protocol \in WireProtocol :
         LET r == select_protocol(probes[i], protocol)
         IN  /\ probes' = [probes EXCEPT ![i] = r.self]
             /\ hist' = [hist EXCEPT
                    ![i].selected = IF r.res.tag = "Ok"
                                    THEN Some(protocol) ELSE @]
             /\ lastCall' = [op |-> "select_protocol", id |-> i,
                             before |-> probes[i], arg |-> protocol,
                             res |-> r.res]
    /\ UNCHANGED <<osOpen, host, scanVars>>

\* first: when the call before this one was a detach of the same probe, its
\* result and the ports then open
Detach(i) ==
    /\ Live(i)
    /\ LET r == detach(probes[i])
       IN  /\ probes' = [probes EXCEPT ![i] = r.self]
           /\ lastCall' = [op |-> "detach", id |-> i, before |-> probes[i],
                           res |-> r.res,
                           first |-> IF lastCall.op = "detach"
                                        /\ lastCall.id = i
                                     THEN Some([res |-> lastCall.res,
                                                open |-> osOpen])
                                     ELSE None]
    /\ UNCHANGED <<hist, osOpen, host, scanVars>>

\* a call of one of the three reset methods.  The panic unwinds out of the
\* &mut self call and leaves the fields as the method left them; whether the
\* caller's probe outlives the unwinding is the caller's step (DropProbe)
Reset(i, op, r) ==
    /\ probes' = [probes EXCEPT ![i] = r.self]
    /\ lastCall' = [op |-> op, id |-> i, before |-> probes[i],
                    res |-> r.res]
    /\ UNCHANGED <<hist, osOpen, host, scanVars>>

TargetReset(i) ==
    /\ Live(i)
    /\ Reset(i, "target_reset", target_reset(probes[i]))

TargetResetAssert(i) ==
    /\ Live(i)
    /\ Reset(i, "target_reset_assert", target_reset_assert(probes[i]))

TargetResetDeassert(i) ==
    /\ Live(i)
    /\ Reset(i, "target_reset_deassert", target_reset_deassert(probes[i]))

HasArmInterface(i) ==
    /\ Live(i)
    /\ lastCall' = [op |-> "has_arm_interface", id |-> i,
                    before |-> probes[i],
                    res |-> has_arm_interface(probes[i])]
    /\ UNCHANGED <<probes, hist, osOpen, host, scanVars>>

\* self: Box<Self> moves into the call.  The caller has a probe again only
\* when the call returns Err((probe, error)); on Ok the interface owns the
\* probe and its port; a panic drops the box, which closes the port.
TryGetArmInterface(i) ==
    /\ Live(i)
    /\ LET r == try_get_arm_interface(probes[i])
       IN  /\ probes' = [probes EXCEPT
                  ![i] = IF r.res.tag = "Err" THEN r.res.err[1] ELSE NoProbe]
           /\ osOpen' = IF r.res.tag = "Panic"
                        THEN osOpen \ {HeldPort(i)} ELSE osOpen
           /\ hist' = [hist EXCEPT
                  ![i] = IF r.res.tag = "Err" THEN @ ELSE NoHist]
           /\ lastCall' = [op |-> "try_get_arm_interface", id |-> i,
                           before |-> probes[i], res |-> r.res]
    /\ UNCHANGED <<host, scanVars>>

\* a drop that forgets the probe and leaves its port open
DropProbe_leak(i) ==
    /\ Live(i)
    /\ probes' = [probes EXCEPT ![i] = NoProbe]
    /\ hist' = [hist EXCEPT ![i] = NoHist]
    /\ lastCall' = [op |-> "drop", id |-> i, before |-> probes[i],
                    res |-> Ok(Unit)]
    /\ UNCHANGED <<osOpen, host, scanVars>>

\* the caller drops the probe: the Box<dyn SerialPort> closes its port
DropProbe(i) ==
    /\ Live(i)
    /\ probes' = [probes EXCEPT ![i] = NoProbe]
    /\ osOpen' = osOpen \ {HeldPort(i)}
    /\ hist' = [hist EXCEPT ![i] = NoHist]
    /\ lastCall' = [op |-> "drop", id |-> i, before |-> probes[i],
                    res |-> Ok(Unit)]
    /\ UNCHANGED <<host, scanVars>>

Init ==
    /\ NoProbes
    /\ host = NoHost
    /\ NoScans
    /\ usbDevices = <<>>

Next ==
    \E i \in ProbeIds :
        \/ NewFromSelector(i)
        \/ GetName(i)
        \/ Speed(i)
        \/ SetSpeed(i)
        \/ Attach(i)
        \/ SelectProtocol(i)
        \/ Detach(i)
        \/ TargetReset(i)
        \/ TargetResetAssert(i)
        \/ TargetResetDeassert(i)
        \/ HasArmInterface(i)
        \/ TryGetArmInterface(i)
        \/ DropProbe(i)

Spec == Init /\ [][Next]_vars

---------------------------------------------------------------------------
(* One construction, on each selector and each answer of the host *)

Hosts ==
    UNION {[selector : Selectors, avail : {avail},
            canOpen : SUBSET (IF avail.tag = "Ok"
                              THEN PortNames(avail.val) ELSE {})] :
           avail \in Avails}

ConstructInit ==
    /\ NoProbes
    /\ host \in Hosts
    /\ NoScans
    /\ usbDevices = <<>>

\* BMPProbe::new_from_selector(host.selector), the result kept in slot "a"
Construct ==
    /\ lastCall = NoCall
    /\ LET r == new_from_selector(host.selector, host.avail, host.canOpen)
       IN  /\ probes' = [probes EXCEPT
                  !["a"] = IF r.res.tag = "Ok" THEN r.res.val ELSE NoProbe]
           /\ osOpen' = osOpen \cup OpenedBy(r.tried, host.canOpen)
           /\ lastCall' = [op |-> "new_from_selector", id |-> "a",
                           selector |-> host.selector, res |-> r.res,
                           tried |-> r.tried, earlier |-> NoProbe]
    /\ UNCHANGED <<hist, host, scanVars>>

ConstructNext == Construct

ConstructSpec == ConstructInit /\ [][ConstructNext]_vars

---------------------------------------------------------------------------
(* The claims.  Spec unless said otherwise. *)

ResetOps == {"target_reset", "target_reset_assert", "target_reset_deassert"}

\* C1: an attach() made on a probe on which no select_protocol() has
\* returned Ok fails with a DebugProbeError; it never returns Ok.
C1_AttachBeforeSelectFails ==
    \A i \in ProbeIds :
        (lastCall.op = "attach" /\ lastCall.id = i /\ ~hist[i].selected.some)
            => lastCall.res.tag = "Err"

\* C2: in every probe state select_protocol(p) returns Ok(()) when p is the
\* protocol the family accepts (Jtag), and otherwise
\* Err(UnsupportedProtocol(q)) with q = p: no other result.
C2_SelectProtocolResult ==
    lastCall.op = "select_protocol" =>
        /\ lastCall.arg = "Jtag" => lastCall.res = Ok(Unit)
        /\ lastCall.arg # "Jtag" =>
               lastCall.res = Err([UnsupportedProtocol |-> lastCall.arg])

\* C2's case: Swd is rejected, carried in the error, on a probe that had
\* select_protocol return Ok and then attach return Ok
C2_RejectedAfterAttach ==
    /\ lastCall.op = "select_protocol"
    /\ lastCall.arg = "Swd"
    /\ lastCall.res = Err([UnsupportedProtocol |-> "Swd"])
    /\ hist[lastCall.id].attached = Some(Some("Jtag"))

\* C3: try_get_arm_interface() ends in one of two ways: Ok with the
\* interface, or Err with the original probe handed back as it was before the
\* call (same port, protocol and speed); never any other way.
C3_InterfaceOrProbeBack ==
    lastCall.op = "try_get_arm_interface" =>
        \/ lastCall.res.tag = "Ok"
        \/ /\ lastCall.res.tag = "Err"
           /\ probes[lastCall.id] = lastCall.before

\* C4: in every probe state each of target_reset(), target_reset_assert()
\* and target_reset_deassert() ends in a failure (an Err or the "not
\* implemented" panic), never in Ok(()), and leaves the probe's speed and
\* protocol as they were.
C4_ResetFailsLoudly ==
    lastCall.op \in ResetOps =>
        /\ lastCall.res.tag \in {"Err", "Panic"}
        /\ probes[lastCall.id].speed = lastCall.before.speed
        /\ probes[lastCall.id].protocol = lastCall.before.protocol

\* C4's case: a reset method has been called on a probe whose speed was set
\* and on which attach had returned Ok
C4_ResetCalledAttached ==
    /\ lastCall.op = "target_reset"
    /\ hist[lastCall.id].attached.some
    /\ hist[lastCall.id].speed_set = Some(5000)

\* ProbeCreationError::NotFound as new_from_selector returns it
NotFound == Err([ProbeCreationError |-> "NotFound"])

\* C5 (ConstructSpec): construction returns NotFound when the enumeration
\* fails, when no port is USB-backed with both ids the selector's, and when
\* the matched port (the first such port) fails to open; it never ends
\* otherwise than Ok or NotFound; a probe comes only from a USB-backed port
\* with both ids the selector's that opened, and no other port is opened.
C5_NotFoundOrOpened ==
    lastCall.op = "new_from_selector" =>
        LET ports == IF host.avail.tag = "Ok" THEN host.avail.val ELSE <<>>
            Both(k) ==
                /\ ports[k].port_type.kind = "UsbPort"
                /\ ports[k].port_type.vid = host.selector.vendor_id
                /\ ports[k].port_type.pid = host.selector.product_id
            matching == {k \in 1..Len(ports) : Both(k)}
            first == CHOOSE k \in matching : \A j \in matching : k <= j
        IN  /\ lastCall.res.tag \in {"Ok", "Err"}
            /\ lastCall.res.tag = "Err" => lastCall.res = NotFound
            /\ host.avail.tag = "Err" => lastCall.res = NotFound
            /\ matching = {} => lastCall.res = NotFound
            /\ (matching # {} /\ ports[first].port_name \notin host.canOpen)
                   => lastCall.res = NotFound
            /\ lastCall.res.tag = "Ok" =>
                   \E k \in matching :
                       /\ ports[k].port_name \in host.canOpen
                       /\ probes["a"].device._port.port_name
                              = ports[k].port_name
            /\ \A k \in (1..Len(ports)) \ matching :
                   ports[k].port_name \notin osOpen

\* C5's case: NotFound although a port that is not USB-backed and a USB port
\* with only the vendor id the selector's are there and would open
C5_NearMissesNotFound ==
    /\ lastCall.op = "new_from_selector"
    /\ lastCall.res = NotFound
    /\ host.avail.tag = "Ok"
    /\ \E k \in 1..Len(host.avail.val) :
           /\ host.avail.val[k].port_type.kind # "UsbPort"
           /\ host.avail.val[k].port_name \in host.canOpen
    /\ \E k \in 1..Len(host.avail.val) :
           /\ host.avail.val[k].port_type.kind = "UsbPort"
           /\ host.avail.val[k].port_type.vid = host.selector.vendor_id
           /\ host.avail.val[k].port_type.pid # host.selector.product_id
           /\ host.avail.val[k].port_name \in host.canOpen

\* C6: after select_protocol(p) returns Ok the probe's protocol is p, after
\* set_speed(k) its speed is k, and the next attach() runs with that
\* protocol and that speed.
C6_DefaultsOverridable ==
    \A i \in ProbeIds :
        /\ (lastCall.op = "select_protocol" /\ lastCall.id = i
                /\ lastCall.res.tag = "Ok")
               => probes[i].protocol = lastCall.arg
        /\ (lastCall.op = "set_speed" /\ lastCall.id = i)
               => probes[i].speed = lastCall.arg
        /\ (lastCall.op = "attach" /\ lastCall.id = i)
               => /\ hist[i].selected.some
                      => lastCall.with_protocol = hist[i].selected.val
                  /\ hist[i].speed_set.some
                      => lastCall.with_speed = hist[i].speed_set.val

\* C7: every successful construction returns a probe that holds the opened
\* port, with protocol Swd and speed() 1000, no protocol selected and not
\* attached, whatever the selector and whatever probe there was before.
C7_ConstructedWithDefaults ==
    \A i \in ProbeIds :
        (lastCall.op = "new_from_selector" /\ lastCall.id = i
            /\ lastCall.res.tag = "Ok")
        => /\ probes[i] = lastCall.res.val
           /\ probes[i].protocol = "Swd"
           /\ speed(probes[i]) = 1000
           /\ probes[i].device._port.port_name \in osOpen
           /\ lastCall.tried = <<probes[i].device._port.port_name>>
           /\ hist[i] = NoHist

\* C7's case: a probe constructed for vid 0x1d50, pid 0xABCD right after a
\* probe whose speed had been set to 5000 was dropped
C7_ConstructedAfterAnother ==
    /\ lastCall.op = "new_from_selector"
    /\ lastCall.res.tag = "Ok"
    /\ lastCall.selector = [vendor_id |-> 7504, product_id |-> 43981]
    /\ lastCall.earlier # NoProbe
    /\ lastCall.earlier.speed = 5000

\* C8: set_speed(k) returns Ok(k); from then until the next set_speed the
\* stored speed, which speed() returns, is k, whatever calls come between;
\* speed() changes nothing, and attach, detach and select_protocol leave the
\* speed as it was.
C8_SpeedStoreAndReflect ==
    \A i \in ProbeIds :
        /\ (lastCall.op = "set_speed" /\ lastCall.id = i)
               => lastCall.res = Ok(lastCall.arg)
        /\ (Live(i) /\ hist[i].speed_set.some)
               => speed(probes[i]) = hist[i].speed_set.val
        /\ (lastCall.op = "speed" /\ lastCall.id = i)
               => /\ probes[i] = lastCall.before
                  /\ lastCall.res = probes[i].speed
        /\ (lastCall.op \in {"attach", "detach", "select_protocol", "speed"}
                /\ lastCall.id = i)
               => probes[i].speed = lastCall.before.speed

\* C8's case: speed() returns the 5000 that was set, on a probe on which
\* select_protocol and attach have returned Ok
C8_SpeedReadBack ==
    /\ lastCall.op = "speed"
    /\ lastCall.res = 5000
    /\ hist[lastCall.id].speed_set = Some(5000)
    /\ hist[lastCall.id].selected.some
    /\ hist[lastCall.id].attached.some

\* C9: when detach is called twice in a row, both calls return Ok(()) and
\* the probe (port, protocol, speed) and the open ports after the second
\* call are those after the first.
C9_DetachTwice ==
    \A i \in ProbeIds :
        (lastCall.op = "detach" /\ lastCall.id = i /\ lastCall.first.some)
        => /\ lastCall.first.val.res = Ok(Unit)
           /\ lastCall.res = Ok(Unit)
           /\ probes[i] = lastCall.before
           /\ osOpen = lastCall.first.val.open
           /\ HeldPort(i) \in osOpen

\* C9's case: a second detach in a row, on a probe that was attached
C9_DetachedTwice ==
    /\ lastCall.op = "detach"
    /\ lastCall.first.some
    /\ hist[lastCall.id].attached.some

\* C10 (ScanSpec): a device whose vendor id is not 0x1d50 gets no identity
\* in a scan, whatever its product id, product string and serial number;
\* every identity in the result has vendor_id 0x1d50 and kind BMP.
C10_VendorFilter ==
    \A s \in ScannerIds :
        scans[s].pc # "idle" =>
            /\ \A k \in 1..Len(scans[s].out) :
                   /\ scans[s].out[k].vendor_id = 7504
                   /\ scans[s].out[k].probe_type = "BMP"
            /\ \A k \in 1..Len(scans[s].from) :
                   usbDevices[scans[s].from[k]].vendor_id = 7504

\* C10's case: a finished scan that emitted an identity and went over
\* another vendor's device that answers every request and calls itself
\* "Black Magic Probe"
C10_OtherVendorSkipped ==
    \E s \in ScannerIds :
        /\ scans[s].pc = "done"
        /\ Len(scans[s].out) = 1
        /\ \E j \in 1..Len(usbDevices) :
               /\ usbDevices[j].vendor_id # 7504
               /\ usbDevices[j].descriptor_ok
               /\ usbDevices[j].open_ok
               /\ usbDevices[j].product_string = Ok(BmpPrefix)

\* the name read starts with "Black Magic Probe", character by character
NameStartsBmp(str) ==
    /\ Len(str) >= 17
    /\ \A c \in 1..17 : str[c] = BmpPrefix[c]

\* the device answers the descriptor, open, language and product string
\* requests, with a language in the table
AnswersUpToName(d) ==
    /\ d.descriptor_ok
    /\ d.open_ok
    /\ d.languages.tag = "Ok"
    /\ Len(d.languages.val) > 0
    /\ d.product_string.tag = "Ok"

\* the devices scanner s has gone over
Visited(s) == 1..(scans[s].next - 1)

\* C11 (ScanSpec): a device with vendor id 0x1d50 whose product string does
\* not start with "Black Magic Probe" gets no identity; a device that passes
\* every step gets one, whose identifier is the product string read and
\* whose vendor id, product id and serial number are that device's.
C11_ContentCheck ==
    \A s \in ScannerIds :
        scans[s].pc # "idle" =>
            /\ Len(scans[s].out) = Len(scans[s].from)
            /\ \A k \in 1..Len(scans[s].from) :
                   LET d == usbDevices[scans[s].from[k]]
                       id == scans[s].out[k]
                   IN  /\ d.product_string.tag = "Ok"
                       /\ NameStartsBmp(d.product_string.val)
                       /\ id.identifier = d.product_string.val
                       /\ id.vendor_id = d.vendor_id
                       /\ id.product_id = d.product_id
                       /\ id.serial_number =
                              IF d.serial_number_string.tag = "Ok"
                              THEN Some(d.serial_number_string.val)
                              ELSE None
            /\ \A j \in Visited(s) :
                   (/\ usbDevices[j].vendor_id = 7504
                    /\ AnswersUpToName(usbDevices[j])
                    /\ NameStartsBmp(usbDevices[j].product_string.val))
                   => \E k \in 1..Len(scans[s].from) : scans[s].from[k] = j

\* C11's case: a finished scan over a 0x1d50 device whose name holds "Black
\* Magic Probe" but not at its start, and a probe named "Black Magic Probe
\* v1", the only identity emitted
C11_NameInsideSkipped ==
    \E s \in ScannerIds :
        /\ scans[s].pc = "done"
        /\ Len(scans[s].out) = 1
        /\ scans[s].out[1].identifier = NameV1
        /\ \E j \in Visited(s) :
               /\ usbDevices[j].vendor_id = 7504
               /\ usbDevices[j].product_string = Ok(NameInside)

\* C12 as claimed (ScanSpec): a failure at any step for a candidate -- the
\* descriptor, the open, the language table (unreadable or empty), the
\* product string, the serial-number string -- leaves it without identity.
C12_AnyFailureSkips ==
    \A s \in ScannerIds :
        scans[s].pc # "idle" =>
            \A j \in Visited(s) :
                (\/ ~AnswersUpToName(usbDevices[j])
                 \/ usbDevices[j].serial_number_string.tag # "Ok")
                => \A k \in 1..Len(scans[s].from) : scans[s].from[k] # j

\* C12 amended (ScanSpec): a failure at the descriptor, the open, the
\* language table (unreadable or empty) or the product string leaves the
\* candidate without identity, and the scan goes on to the next candidate
\* (a finished scan has gone over every device); an unreadable serial number
\* does not skip the candidate: its identity has no serial number.
C12_FailureSkipsButSerial ==
    \A s \in ScannerIds :
        scans[s].pc # "idle" =>
            /\ \A j \in Visited(s) :
                   ~AnswersUpToName(usbDevices[j])
                   => \A k \in 1..Len(scans[s].from) : scans[s].from[k] # j
            /\ \A k \in 1..Len(scans[s].from) :
                   usbDevices[scans[s].from[k]].serial_number_string.tag # "Ok"
                   => scans[s].out[k].serial_number = None
            /\ (scans[s].pc = "done" /\ scans[s].enum = "Ok")
                   => /\ Visited(s) = 1..Len(usbDevices)
                      /\ Len(scans[s].io) = Len(usbDevices)

\* C12's case: a finished scan whose first candidate failed to open and
\* whose second candidate got its identity
C12_SkippedThenEmitted ==
    \E s \in ScannerIds :
        /\ scans[s].pc = "done"
        /\ Len(usbDevices) = 2
        /\ ~usbDevices[1].open_ok
        /\ scans[s].from = <<2>>

\* the device is one the scan gives an identity for: vendor id 0x1d50, every
\* request up to the product string answered, the name starting with the
\* prefix
Emits(d) ==
    /\ d.vendor_id = 7504
    /\ AnswersUpToName(d)
    /\ NameStartsBmp(d.product_string.val)

\* C13 (ScanSpec): a scan never fails: whatever happens it ends with a
\* sequence to return.  The sequence
\* is empty when the USB context or the enumeration fails, or when no device
\* is attached; otherwise it holds an identity for exactly the devices whose
\* own outcomes pass, each device decided by its own outcomes alone, in the
\* order of enumeration.
C13_ScanReturnsSequence ==
    \A s \in ScannerIds :
        scans[s].pc = "done" =>
            /\ Len(scans[s].out) = Len(scans[s].from)
            /\ scans[s].enum # "Ok" => scans[s].out = <<>>
            /\ usbDevices = <<>> => scans[s].out = <<>>
            /\ scans[s].enum = "Ok" =>
                   /\ {scans[s].from[k] : k \in 1..Len(scans[s].from)}
                          = {j \in 1..Len(usbDevices) : Emits(usbDevices[j])}
                   /\ \A k \in 1..Len(scans[s].from) :
                          \A l \in 1..Len(scans[s].from) :
                              k < l => scans[s].from[k] < scans[s].from[l]

\* C13's case: a finished scan over two different probes, returned in the
\* order enumerated
C13_TwoInOrder ==
    \E s \in ScannerIds :
        /\ scans[s].pc = "done"
        /\ Len(usbDevices) = 2
        /\ scans[s].from = <<1, 2>>
        /\ scans[s].out[1].identifier # scans[s].out[2].identifier

\* C15 (ScanSpec): the vendor id is compared before any open or string
\* read: the descriptor is the first thing asked of a device, and a device
\* whose vendor id is not 0x1d50 is never opened and has no string
\* descriptor read.
C15_VendorBeforeIo ==
    \A s \in ScannerIds :
        scans[s].pc # "idle" =>
            /\ Len(scans[s].io) = scans[s].next - 1
            /\ \A j \in Visited(s) :
                   /\ scans[s].io[j][1] = "device_descriptor"
                   /\ (usbDevices[j].descriptor_ok
                       /\ usbDevices[j].vendor_id # 7504)
                      => scans[s].io[j] = <<"device_descriptor">>
                   /\ (\E k \in 1..Len(scans[s].io[j]) :
                           scans[s].io[j][k] \in {"open", "read_languages",
                               "read_product_string",
                               "read_serial_number_string"})
                      => usbDevices[j].vendor_id = 7504

\* C15's case: a scan has gone over a device of another vendor that would
\* open and names itself "Black Magic Probe", asking it for nothing but the
\* descriptor
C15_OtherVendorNotOpened ==
    \E s \in ScannerIds :
        /\ scans[s].pc # "idle"
        /\ \E j \in Visited(s) :
            /\ usbDevices[j].vendor_id = 1155
            /\ usbDevices[j].open_ok
            /\ usbDevices[j].product_string = Ok(BmpPrefix)
            /\ scans[s].io[j] = <<"device_descriptor">>

\* the ports the host listed for the construction
HostPorts == IF host.avail.tag = "Ok" THEN host.avail.val ELSE <<>>

\* the listed ports that are USB-backed with both ids the selector's
BothIdsMatch ==
    {k \in 1..Len(HostPorts) :
        /\ HostPorts[k].port_type.kind = "UsbPort"
        /\ HostPorts[k].port_type.vid = host.selector.vendor_id
        /\ HostPorts[k].port_type.pid = host.selector.product_id}

\* C14 (ConstructSpec): construction follows a first-match policy: the one
\* port it attempts to open is the first USB port, in enumeration order,
\* with both ids the selector's, and it returns right after that attempt; if
\* that open fails it returns NotFound even when a later port matches and
\* would open; it attempts at most one open, none without a match, and never
\* opens a port that does not match.
C14_FirstMatchOnly ==
    lastCall.op = "new_from_selector" =>
        /\ Len(lastCall.tried) <= 1
        /\ BothIdsMatch = {} => lastCall.tried = <<>>
        /\ BothIdsMatch # {} =>
               LET first == CHOOSE k \in BothIdsMatch :
                                \A j \in BothIdsMatch : k <= j
               IN  /\ lastCall.tried = <<HostPorts[first].port_name>>
                   /\ HostPorts[first].port_name \in host.canOpen
                      => /\ lastCall.res.tag = "Ok"
                         /\ probes["a"].device._port.port_name
                                = HostPorts[first].port_name
                         /\ osOpen = {HostPorts[first].port_name}
                   /\ HostPorts[first].port_name \notin host.canOpen
                      => /\ lastCall.res = NotFound
                         /\ osOpen = {}
        /\ \A k \in (1..Len(HostPorts)) \ BothIdsMatch :
               HostPorts[k].port_name \notin osOpen

\* C14's case: NotFound after the first matching port failed to open, with a
\* later matching port that would have opened
C14_LaterMatchIgnored ==
    /\ lastCall.op = "new_from_selector"
    /\ lastCall.res = NotFound
    /\ \E k \in BothIdsMatch :
           /\ HostPorts[k].port_name \notin host.canOpen
           /\ lastCall.tried = <<HostPorts[k].port_name>>
           /\ \E l \in BothIdsMatch :
                  /\ k < l
                  /\ HostPorts[l].port_name \in host.canOpen

\* the calls that borrow the probe and hand it back
BorrowingOps ==
    {"get_name", "speed", "set_speed", "attach", "select_protocol", "detach",
     "has_arm_interface"}

\* C16: a probe opens its port once, at construction, and never again; the
\* port stays open and the probe's own across set_speed, select_protocol,
\* attach and detach (detach does not close it); it is released when the
\* probe is dropped, and then is no longer open; a failed construction
\* leaves no port open.
C16_PortOwnedUntilDrop ==
    \A i \in ProbeIds :
        /\ Live(i) => osOpen = {probes[i].device._port.port_name}
        /\ ~Live(i) => osOpen = {}
        /\ (lastCall.op = "new_from_selector" /\ lastCall.id = i) =>
               /\ Len(lastCall.tried) <= 1
               /\ lastCall.res.tag = "Ok" =>
                      lastCall.tried = <<probes[i].device._port.port_name>>
               /\ lastCall.res.tag # "Ok" => ~Live(i) /\ osOpen = {}
        /\ (lastCall.op \in BorrowingOps /\ lastCall.id = i) =>
               /\ Live(i)
               /\ probes[i].device = lastCall.before.device
               /\ lastCall.before.device._port.port_name \in osOpen
        /\ (lastCall.op = "drop" /\ lastCall.id = i) =>
               /\ ~Live(i)
               /\ lastCall.before.device._port.port_name \notin osOpen

\* C16's case: a probe was dropped and the next construction opened the very
\* port it had held, which a port still open would not allow
C16_PortReopenedAfterDrop ==
    /\ lastCall.op = "new_from_selector"
    /\ lastCall.res.tag = "Ok"
    /\ lastCall.earlier # NoProbe
    /\ lastCall.tried = <<lastCall.earlier.device._port.port_name>>

\* C18: select_protocol, attach and detach leave every stored field as it
\* was; the protocol of a probe is Swd in every reachable state, and its
\* speed is 1000 or, once set_speed has been called, the argument of the
\* last set_speed.
C18_FrameAndDefaults ==
    \A i \in ProbeIds :
        /\ Live(i) =>
               /\ probes[i].protocol = "Swd"
               /\ probes[i].speed = IF hist[i].speed_set.some
                                    THEN hist[i].speed_set.val ELSE 1000
        /\ (lastCall.op \in {"select_protocol", "attach", "detach"}
            /\ lastCall.id = i) => probes[i] = lastCall.before

\* C18's case: select_protocol(Jtag) has just returned Ok on a probe whose
\* speed was set to 5000 and which was attached before; the probe still
\* holds Swd and 5000
C18_JtagAcceptedSwdKept ==
    /\ lastCall.op = "select_protocol"
    /\ lastCall.arg = "Jtag"
    /\ lastCall.res.tag = "Ok"
    /\ hist[lastCall.id].attached.some
    /\ probes[lastCall.id].protocol = "Swd"
    /\ probes[lastCall.id].speed = 5000

\* the identity a scan gives for device d
IdentityOf(d) ==
    [identifier |-> d.product_string.val,
     vendor_id |-> d.vendor_id,
     product_id |-> d.product_id,
     serial_number |-> IF d.serial_number_string.tag = "Ok"
                       THEN Some(d.serial_number_string.val) ELSE None,
     probe_type |-> "BMP"]

\* what a scan run alone has collected once it has gone over the first n
\* devices
RECURSIVE AloneOut(_)
AloneOut(n) ==
    IF n = 0
    THEN <<>>
    ELSE IF Emits(usbDevices[n])
         THEN Append(AloneOut(n - 1), IdentityOf(usbDevices[n]))
         ELSE AloneOut(n - 1)

\* the requests made of one device open a handle at most once, and a handle
\* opened is then closed, as the last request
HandleClosed(d, io) ==
    LET opens == {k \in 1..Len(io) : io[k] = "open"}
        closes == {k \in 1..Len(io) : io[k] = "close"}
    IN  /\ Cardinality(opens) <= 1
        /\ IF opens # {} /\ d.open_ok
           THEN closes = {Len(io)}
           ELSE closes = {}

\* what holds of the scanners in every state, for C17
ScansAsAlone ==
    /\ \A s \in ScannerIds :
           scans[s].pc # "idle" =>
               /\ scans[s].enum \in {"Ok", "ContextErr", "DevicesErr"}
               /\ scans[s].enum = "Ok" =>
                      scans[s].out = AloneOut(scans[s].next - 1)
               /\ (scans[s].pc = "done" /\ scans[s].enum = "Ok") =>
                      scans[s].out = AloneOut(Len(usbDevices))
               /\ \A j \in Visited(s) :
                      HandleClosed(usbDevices[j], scans[s].io[j])
    /\ probes = [i \in ProbeIds |-> NoProbe]
    /\ osOpen = {}

\* what holds of every step of a scanner, for C17
ScanStepLocal ==
    /\ usbDevices' = usbDevices
    /\ probeVars' = probeVars
    /\ \A s \in ScannerIds :
           \A t \in ScannerIds \ {s} :
               scans'[s] # scans[s] => scans'[t] = scans[t]

\* C17 (ScanSpec): scans are independent: each call has the outcome of its
\* own USB context, every handle it opens on a device is closed before it
\* moves on, a step of one scan changes nothing but that scan's own record
\* (not the devices, not any probe, not the other scan), and so, the devices
\* staying the same, two scans interleaved in any way each collect what a
\* scan run alone collects.
C17_ScansIndependent == [] ScansAsAlone /\ [][ScanStepLocal]_vars

\* C17's case: two scans under way at once, one a device ahead of the other,
\* each having collected an identity from every device it has gone over
C17_TwoScansUnderWay ==
    /\ scans["s1"].pc = "iter"
    /\ scans["s2"].pc = "iter"
    /\ scans["s1"].next = 2
    /\ scans["s2"].next = 3
    /\ Len(scans["s1"].out) = 1
    /\ Len(scans["s2"].out) = 2

===========================================================================
